---- MODULE Spec2Model ----
(***************************************************************************)
(* A model of src/pong.py: the probe loop of ping_cli, its statistics      *)
(* aggregates, its rolling log of formatted lines and the panels it        *)
(* prints.  One action per statement group of the loop; KeyboardInterrupt  *)
(* may arrive at every position inside the try block.                      *)
(***************************************************************************)
EXTENDS Integers, Sequences, FiniteSets, TLC

(* ---------------------------------------------------------------------- *)
(* Bounds of the model                                                    *)
(* ---------------------------------------------------------------------- *)

\* format_color is tried on the hundredths 0.00 .. MaxHundredths / 100, and on inf
MaxHundredths == 10100
\* --count is drawn from -NegCount .. MaxCount, and LogCap + 1 (a long run)
NegCount == 1
MaxCount == 3
\* the prober answers freely on the first VarIters probes, and times out after
VarIters == 3
\* an --infinite run is followed for LogCap + ExtraIters probes
ExtraIters == 2

(* ---------------------------------------------------------------------- *)
(* Program constants                                                      *)
(* ---------------------------------------------------------------------- *)

\* if len(pings) > 20
LogCap == 20
\* format_rtt: [50, 100]
RttLow == 50
RttHigh == 100
\* construct_stats_panel: [10, 20]
LossLow == 10
LossHigh == 20
\* --size default
Size == 56
\* --timeout default, in ms: what a timed out response carries as its time
TimeoutMs == 1000

Host == "host"

\* time_elapsed_ms of the successful responses the prober may return
RttValues == {10, 30}

MaxIter == LogCap + ExtraIters

Counts == ((0 - NegCount) .. MaxCount) \cup {LogCap + 1}

(* ---------------------------------------------------------------------- *)
(* Numbers: Python ints and floats as exact fractions, with float('inf')  *)
(* ---------------------------------------------------------------------- *)

RECURSIVE GCD(_, _)
GCD(a, b) == IF b = 0 THEN a ELSE GCD(b, a % b)

Num(n) == [inf |-> FALSE, num |-> n, den |-> 1]

\* float('inf')
Inf == [inf |-> TRUE, num |-> 0, den |-> 1]

\* the exception a / 0 raises, as a value no number equals
ZeroDivisionError == [inf |-> FALSE, num |-> 0, den |-> 0]

Raises(q) == q.den = 0

\* a / b of two non-negative ints
TrueDiv(a, b) ==
    IF b = 0 THEN ZeroDivisionError
    ELSE LET g == GCD(a, b) IN [inf |-> FALSE, num |-> a \div g, den |-> b \div g]

\* q * k
Times(q, k) ==
    IF Raises(q) THEN q
    ELSE LET g == GCD(q.num * k, q.den)
         IN  [inf |-> FALSE, num |-> (q.num * k) \div g, den |-> q.den \div g]

\* a < b
Lt(a, b) == ~a.inf /\ (b.inf \/ a.num * b.den < b.num * a.den)

\* min(a, b): b when b < a, else a
min(a, b) == IF Lt(b, a) THEN b ELSE a

\* a max that keeps the smaller of the two
max_Smaller(a, b) == IF b < a THEN b ELSE a

\* max(a, b) of two ints
max(a, b) == IF b > a THEN b ELSE a

\* round(q, 2): to the nearest hundredth, a tie to the even one
round2(q) ==
    IF q.inf \/ Raises(q) THEN q
    ELSE LET x  == q.num * 100
             fl == x \div q.den
             rm == x % q.den
             r  == IF 2 * rm < q.den THEN fl
                   ELSE IF 2 * rm > q.den THEN fl + 1
                   ELSE IF fl % 2 = 0 THEN fl ELSE fl + 1
         IN  TrueDiv(r, 100)

(* ---------------------------------------------------------------------- *)
(* Formatting                                                             *)
(* ---------------------------------------------------------------------- *)

\* a classification whose boundaries belong to the lower tier
format_color_Closed(value, thresholds, append) ==
    IF ~Lt(Num(thresholds[1]), value)
      THEN [color |-> "green", value |-> value, append |-> append]
    ELSE IF ~Lt(Num(thresholds[2]), value)
      THEN [color |-> "yellow", value |-> value, append |-> append]
    ELSE [color |-> "red", value |-> value, append |-> append]

format_color(value, thresholds, append) ==
    IF Lt(value, Num(thresholds[1]))
      THEN [color |-> "green", value |-> value, append |-> append]
    ELSE IF Lt(value, Num(thresholds[2]))
      THEN [color |-> "yellow", value |-> value, append |-> append]
    ELSE [color |-> "red", value |-> value, append |-> append]

format_rtt(rtt) == format_color(rtt, <<RttLow, RttHigh>>, "ms")

\* the line of one response; now stands for datetime.now()
create_ping_output(resp, host, size, now) ==
    IF resp.success
      THEN [time |-> now, text |-> "Reply from", host |-> host, bytes |-> size,
            rtt |-> format_rtt(Num(resp.time_elapsed_ms))]
      ELSE [time |-> now, text |-> "Request timed out", host |-> "", bytes |-> 0,
            rtt |-> format_rtt(Num(0))]

construct_stats_panel(sent, received, rmin, rmax, ravg, loss) ==
    [Sent     |-> sent,
     Received |-> received,
     Loss     |-> format_color(loss, <<LossLow, LossHigh>>, "%"),
     RTTMin   |-> format_rtt(rmin),
     RTTMax   |-> format_rtt(Num(rmax)),
     RTTAvg   |-> format_rtt(round2(ravg))]

\* (loss_count / sent_packets) * 100 if sent_packets > 0 else 0
LossPercentage(sent, received) ==
    IF sent > 0 THEN Times(TrueDiv(sent - received, sent), 100) ELSE Num(0)

\* an average without its guard
AverageRtt_Unguarded(sum, received) == TrueDiv(sum, received)

\* rtt_sum / received_packets if received_packets > 0 else 0
AverageRtt(sum, received) ==
    IF received > 0 THEN TrueDiv(sum, received) ELSE Num(0)

(* ---------------------------------------------------------------------- *)
(* The prober                                                             *)
(* ---------------------------------------------------------------------- *)

Replies == [success : {TRUE}, time_elapsed_ms : RttValues]

TimedOut == [success |-> FALSE, time_elapsed_ms |-> TimeoutMs]

\* next(iter(response_list), None) of the i-th probe: <<>> is None
ping_host(i) ==
    IF i <= VarIters
      THEN {<<>>, <<TimedOut>>} \cup {<<r>> : r \in Replies}
      ELSE {<<TimedOut>>}

(* ---------------------------------------------------------------------- *)
(* State                                                                  *)
(* ---------------------------------------------------------------------- *)

VARIABLES
    infinite,          \* --infinite
    count,             \* --count
    sent_packets,
    received_packets,
    rtt_min,
    rtt_max,
    rtt_sum,
    pings,             \* the rolling log
    response,          \* <<>> is None (or not yet bound)
    loss_percentage,   \* <<>> while unbound
    stats,             \* <<>> while unbound, else <<panel>>
    pc,                \* position in ping_cli
    error,             \* the exception that ended the run, "" if none
    screen,            \* what the last in-loop render painted: <<>> or <<[log, stats]>>
    finalPanel,        \* the panels printed under "Final statistics:"
    renders,           \* number of in-loop renders
    hist,              \* history: what each recorded probe returned
    fmt_value,         \* a value handed to format_color on its own
    fmt_row,           \* the place it is formatted for, "none" inside a run
    fmt_text           \* <<>> or <<the formatted text>>

vars == <<infinite, count, sent_packets, received_packets, rtt_min, rtt_max, rtt_sum,
          pings, response, loss_percentage, stats, pc, error, screen, finalPanel,
          renders, hist, fmt_value, fmt_row, fmt_text>>

config == <<infinite, count>>
aggregates == <<received_packets, rtt_min, rtt_max, rtt_sum>>
output == <<screen, finalPanel, renders>>
formatting == <<fmt_value, fmt_row, fmt_text>>

\* the positions inside the while loop: the loop is Running
RunningPcs == {"loop", "probe", "record", "evict", "stats", "render", "check", "sleep"}

\* the locals of ping_cli before the try block
Locals ==
    /\ sent_packets = 0
    /\ received_packets = 0
    /\ rtt_min = Inf
    /\ rtt_max = 0
    /\ rtt_sum = 0
    /\ pings = <<>>
    /\ response = <<>>
    /\ loss_percentage = <<>>
    /\ stats = <<>>
    /\ pc = "loop"
    /\ error = ""
    /\ screen = <<>>
    /\ finalPanel = <<>>
    /\ renders = 0
    /\ hist = <<>>

Init ==
    /\ infinite \in BOOLEAN
    /\ count \in Counts
    /\ Locals
    /\ fmt_value = Num(0)
    /\ fmt_row = "none"
    /\ fmt_text = <<>>

(* ---------------------------------------------------------------------- *)
(* The loop                                                               *)
(* ---------------------------------------------------------------------- *)

\* while infinite or sent_packets < count
WhileCond == infinite \/ sent_packets < count

\* a loop that forgets to count the probe it is about to send
LoopEnter_NoIncrement ==
    /\ pc = "loop"
    /\ WhileCond
    /\ sent_packets < MaxIter
    /\ pc' = "probe"
    /\ UNCHANGED <<formatting, config, sent_packets, aggregates, pings, response, loss_percentage,
                   stats, error, output, hist>>

\* the while condition holds: sent_packets += 1 and on to the probe
LoopEnter ==
    /\ pc = "loop"
    /\ WhileCond
    /\ sent_packets < MaxIter
    /\ sent_packets' = sent_packets + 1
    /\ pc' = "probe"
    /\ UNCHANGED <<formatting, config, aggregates, pings, response, loss_percentage, stats, error,
                   output, hist>>

\* the while condition is false: on to the statements after the loop
LoopExit ==
    /\ pc = "loop"
    /\ ~WhileCond
    /\ pc' = "final"
    /\ UNCHANGED <<formatting, config, sent_packets, aggregates, pings, response, loss_percentage,
                   stats, error, output, hist>>

\* response_list = ping_host(...); response = next(iter(response_list), None)
Probe ==
    /\ pc = "probe"
    /\ \E r \in ping_host(sent_packets) : response' = r
    /\ pc' = "record"
    /\ UNCHANGED <<formatting, config, sent_packets, aggregates, pings, loss_percentage, stats,
                   error, output, hist>>

\* a prober exception that is noted and followed by the next iteration
ProbeRaises_Retry ==
    /\ pc = "probe"
    /\ pc' = "loop"
    /\ error' = "ProberError"
    /\ UNCHANGED <<formatting, config, sent_packets, aggregates, pings, response,
                   loss_percentage, stats, output, hist>>

\* ping raises (an unresolvable host, no permission): nothing catches it
ProbeRaises ==
    /\ pc = "probe"
    /\ pc' = "Failed"
    /\ error' = "ProberError"
    /\ UNCHANGED <<formatting, config, sent_packets, aggregates, pings, response, loss_percentage,
                   stats, output, hist>>

\* a record that aggregates every response, successful or not
Record_AnyResponse ==
    /\ pc = "record"
    /\ IF response # <<>>
         THEN LET resp == response[1]
                  rtt  == resp.time_elapsed_ms IN
              /\ pings' = Append(pings, create_ping_output(resp, Host, Size, sent_packets))
              /\ received_packets' = received_packets + 1
              /\ rtt_sum' = rtt_sum + rtt
              /\ rtt_min' = min(rtt_min, Num(rtt))
              /\ rtt_max' = max(rtt_max, rtt)
         ELSE UNCHANGED <<pings, aggregates>>
    /\ hist' = Append(hist, response)
    /\ pc' = "evict"
    /\ UNCHANGED <<formatting, config, sent_packets, response, loss_percentage, stats,
                   error, output>>

\* a record that leaves the loop on a probe that did not succeed
Record_StopOnFail ==
    /\ pc = "record"
    /\ IF response # <<>>
         THEN LET resp == response[1] IN
              /\ pings' = Append(pings, create_ping_output(resp, Host, Size, sent_packets))
              /\ IF resp.success
                   THEN LET rtt == resp.time_elapsed_ms IN
                        /\ received_packets' = received_packets + 1
                        /\ rtt_sum' = rtt_sum + rtt
                        /\ rtt_min' = min(rtt_min, Num(rtt))
                        /\ rtt_max' = max(rtt_max, rtt)
                   ELSE UNCHANGED aggregates
         ELSE UNCHANGED <<pings, aggregates>>
    /\ hist' = Append(hist, response)
    /\ pc' = IF response # <<>> /\ response[1].success THEN "evict" ELSE "final"
    /\ UNCHANGED <<formatting, config, sent_packets, response, loss_percentage, stats,
                   error, output>>

\* a record that keeps the last elapsed time instead of the extremes and the sum
Record_LastRtt ==
    /\ pc = "record"
    /\ IF response # <<>>
         THEN LET resp == response[1] IN
              /\ pings' = Append(pings, create_ping_output(resp, Host, Size, sent_packets))
              /\ IF resp.success
                   THEN LET rtt == resp.time_elapsed_ms IN
                        /\ received_packets' = received_packets + 1
                        /\ rtt_sum' = rtt
                        /\ rtt_min' = Num(rtt)
                        /\ rtt_max' = rtt
                   ELSE UNCHANGED aggregates
         ELSE UNCHANGED <<pings, aggregates>>
    /\ hist' = Append(hist, response)
    /\ pc' = "evict"
    /\ UNCHANGED <<formatting, config, sent_packets, response, loss_percentage, stats,
                   error, output>>

\* if response: pings.append(...); if response.success: the aggregates
Record ==
    /\ pc = "record"
    /\ IF response # <<>>
         THEN LET resp == response[1] IN
              /\ pings' = Append(pings, create_ping_output(resp, Host, Size, sent_packets))
              /\ IF resp.success
                   THEN LET rtt == resp.time_elapsed_ms IN
                        /\ received_packets' = received_packets + 1
                        /\ rtt_sum' = rtt_sum + rtt
                        /\ rtt_min' = min(rtt_min, Num(rtt))
                        /\ rtt_max' = max(rtt_max, rtt)
                   ELSE UNCHANGED aggregates
         ELSE UNCHANGED <<pings, aggregates>>
    /\ hist' = Append(hist, response)
    /\ pc' = "evict"
    /\ UNCHANGED <<formatting, config, sent_packets, response, loss_percentage, stats,
                   error, output>>

\* an eviction that lets the log grow to one line more
Evict_OffByOne ==
    /\ pc = "evict"
    /\ pings' = IF Len(pings) > LogCap + 1 THEN Tail(pings) ELSE pings
    /\ pc' = "stats"
    /\ UNCHANGED <<formatting, config, sent_packets, aggregates, response, loss_percentage, stats,
                   error, output, hist>>

\* an eviction that drops the newest line: pings.pop()
Evict_PopLast ==
    /\ pc = "evict"
    /\ pings' = IF Len(pings) > LogCap THEN SubSeq(pings, 1, Len(pings) - 1) ELSE pings
    /\ pc' = "stats"
    /\ UNCHANGED <<formatting, config, sent_packets, aggregates, response, loss_percentage, stats,
                   error, output, hist>>

\* if len(pings) > 20: pings.pop(0)
Evict ==
    /\ pc = "evict"
    /\ pings' = IF Len(pings) > LogCap THEN Tail(pings) ELSE pings
    /\ pc' = "stats"
    /\ UNCHANGED <<formatting, config, sent_packets, aggregates, response, loss_percentage, stats,
                   error, output, hist>>

\* loss_count, loss_percentage, stats = construct_stats_panel(...)
BuildStats ==
    /\ pc = "stats"
    /\ LET loss == LossPercentage(sent_packets, received_packets)
           ravg == AverageRtt(rtt_sum, received_packets)
       IN  IF Raises(loss) \/ Raises(ravg)
             THEN /\ pc' = "Failed"
                  /\ error' = "ZeroDivisionError"
                  /\ UNCHANGED <<loss_percentage, stats>>
             ELSE /\ loss_percentage' = <<loss>>
                  /\ stats' = <<construct_stats_panel(sent_packets, received_packets,
                                                      rtt_min, rtt_max, ravg, loss)>>
                  /\ pc' = "render"
                  /\ UNCHANGED error
    /\ UNCHANGED <<formatting, config, sent_packets, aggregates, pings, response, output, hist>>

\* console.clear(); console.print(table); console.print(stats)
Render ==
    /\ pc = "render"
    /\ screen' = <<[log |-> pings, stats |-> stats[1]]>>
    /\ renders' = renders + 1
    /\ pc' = "check"
    /\ UNCHANGED <<formatting, config, sent_packets, aggregates, pings, response, loss_percentage,
                   stats, error, finalPanel, hist>>

\* a break test that is off by one
BreakCond_Early == ~infinite /\ sent_packets + 1 >= count

\* a break test that never holds: the delay follows every render
BreakCond_Never == FALSE

\* a break test that forgets --infinite
BreakCond_NoInfinite == sent_packets >= count

\* if not infinite and sent_packets >= count
BreakCond == ~infinite /\ sent_packets >= count

\* ... : break
CheckBreak ==
    /\ pc = "check"
    /\ BreakCond
    /\ pc' = "final"
    /\ UNCHANGED <<formatting, config, sent_packets, aggregates, pings, response, loss_percentage,
                   stats, error, output, hist>>

CheckContinue ==
    /\ pc = "check"
    /\ ~BreakCond
    /\ pc' = "sleep"
    /\ UNCHANGED <<formatting, config, sent_packets, aggregates, pings, response, loss_percentage,
                   stats, error, output, hist>>

\* sleep(interval)
Sleep ==
    /\ pc = "sleep"
    /\ pc' = "loop"
    /\ UNCHANGED <<formatting, config, sent_packets, aggregates, pings, response, loss_percentage,
                   stats, error, output, hist>>

\* a final print that builds its panel anew from the aggregates as they stand
PrintStats_Recomputed(endpc) ==
    /\ finalPanel' = Append(finalPanel,
                            construct_stats_panel(sent_packets, received_packets,
                                rtt_min, rtt_max,
                                AverageRtt(rtt_sum, received_packets),
                                LossPercentage(sent_packets, received_packets)))
    /\ pc' = endpc
    /\ UNCHANGED error

\* print "Final statistics:" and stats: a name never bound raises UnboundLocalError
PrintStats(endpc) ==
    IF stats = <<>>
      THEN /\ pc' = "Failed"
           /\ error' = "UnboundLocalError"
           /\ UNCHANGED finalPanel
      ELSE /\ finalPanel' = Append(finalPanel, stats[1])
           /\ pc' = endpc
           /\ UNCHANGED error

\* after the loop: console.print("\nFinal statistics:"); console.print(stats)
Final ==
    /\ pc = "final"
    /\ PrintStats("Completed")
    /\ UNCHANGED <<formatting, config, sent_packets, aggregates, pings, response, loss_percentage,
                   stats, screen, renders, hist>>

\* except KeyboardInterrupt: the notice, "Final statistics:" and stats
KeyboardInterrupt ==
    /\ pc \in RunningPcs
    /\ PrintStats("Interrupted")
    /\ UNCHANGED <<formatting, config, sent_packets, aggregates, pings, response, loss_percentage,
                   stats, screen, renders, hist>>

\* a run that is neither interrupted nor hit by a prober exception
NextRun ==
    \/ LoopEnter
    \/ LoopExit
    \/ Probe
    \/ Record
    \/ Evict
    \/ BuildStats
    \/ Render
    \/ CheckBreak
    \/ CheckContinue
    \/ Sleep
    \/ Final

Next ==
    \/ NextRun
    \/ ProbeRaises
    \/ KeyboardInterrupt

Spec == Init /\ [][Next]_vars

\* count-bounded runs left alone: every statement is eventually executed
InitRun == Init /\ ~infinite

SpecRun == InitRun /\ [][NextRun]_vars /\ WF_vars(NextRun)

(* ---------------------------------------------------------------------- *)
(* format_color on its own, at each of its call sites                     *)
(* ---------------------------------------------------------------------- *)

FormatValues == {TrueDiv(k, 100) : k \in 0..MaxHundredths} \cup {Inf}

\* the line of a reply, and the Loss, RTT Min and RTT Avg rows of the panel
FormatRows == {"line", "Loss", "RTT Min", "RTT Avg"}

InitFormat ==
    /\ infinite = FALSE
    /\ count = 0
    /\ Locals
    /\ fmt_value \in FormatValues
    /\ fmt_row \in FormatRows
    /\ fmt_text = <<>>

Format ==
    /\ fmt_row # "none"
    /\ fmt_text = <<>>
    /\ fmt_text' =
         LET panel == construct_stats_panel(0, 0,
                          IF fmt_row = "RTT Min" THEN fmt_value ELSE Inf, 0,
                          IF fmt_row = "RTT Avg" THEN fmt_value ELSE Num(0),
                          IF fmt_row = "Loss" THEN fmt_value ELSE Num(0))
         IN  IF fmt_row = "line" THEN <<format_rtt(fmt_value)>>
             ELSE IF fmt_row = "Loss" THEN <<panel.Loss>>
             ELSE IF fmt_row = "RTT Min" THEN <<panel.RTTMin>>
             ELSE <<panel.RTTAvg>>
    /\ UNCHANGED <<fmt_value, fmt_row, config, sent_packets, aggregates, pings, response,
                   loss_percentage, stats, pc, error, output, hist>>

SpecFormat == InitFormat /\ [][Format]_vars

(* ---------------------------------------------------------------------- *)
(* The history folded: what the aggregates and the log should be          *)
(* ---------------------------------------------------------------------- *)

Succeeded(o) == o # <<>> /\ o[1].success

\* the elapsed times of the successful probes, in order
RECURSIVE Elapsed(_)
Elapsed(h) ==
    IF h = <<>> THEN <<>>
    ELSE LET front == Elapsed(SubSeq(h, 1, Len(h) - 1))
             o     == h[Len(h)]
         IN  IF Succeeded(o) THEN Append(front, o[1].time_elapsed_ms) ELSE front

RECURSIVE SumOf(_)
SumOf(s) == IF s = <<>> THEN 0 ELSE s[1] + SumOf(Tail(s))

SetOf(s) == {s[i] : i \in 1..Len(s)}

\* the lines of the probes that returned a response, in order; a line's time is
\* the ordinal of its probe
RECURSIVE LinesOf(_)
LinesOf(h) ==
    IF h = <<>> THEN <<>>
    ELSE LET front == LinesOf(SubSeq(h, 1, Len(h) - 1))
             o     == h[Len(h)]
         IN  IF o = <<>> THEN front
             ELSE Append(front, create_ping_output(o[1], Host, Size, Len(h)))

\* the last n elements of s, or all of s if it has fewer
LastN(s, n) == IF Len(s) <= n THEN s ELSE SubSeq(s, Len(s) - n + 1, Len(s))

\* positions at which the probe just counted has also been recorded
RecordedPcs == {"loop", "evict", "stats", "render", "check", "sleep", "final", "Completed"}

(* ---------------------------------------------------------------------- *)
(* Claims                                                                 *)
(* ---------------------------------------------------------------------- *)

\* C1: in every reachable state, whatever the probes returned and in both modes,
\* received_packets <= sent_packets.
C1_ReceivedLeSent == received_packets <= sent_packets

\* every probe so far succeeded and has been recorded
C1_Witness ==
    /\ pc = "evict"
    /\ sent_packets >= 2
    /\ received_packets = sent_packets

\* C2 (as claimed): every KeyboardInterrupt while Running ends in Interrupted with
\* the final statistics panel printed.
C2_InterruptPrintsPanel ==
    [][KeyboardInterrupt =>
         (pc' = "Interrupted" /\ Len(finalPanel') = Len(finalPanel) + 1)]_vars

\* C3 (as claimed): the panel printed on interruption counts exactly the recorded
\* outcomes: Sent is their number and Received the number of successes among them.
C3_PanelIsRecorded ==
    (pc = "Interrupted" /\ finalPanel # <<>>) =>
        /\ finalPanel[Len(finalPanel)].Sent = Len(hist)
        /\ finalPanel[Len(finalPanel)].Received = Len(Elapsed(hist))

\* C4: a count-bounded run with count >= 1 that is neither interrupted nor hit by
\* a prober exception never sends more than count probes, and eventually is
\* Completed with sent_packets = count, count outcomes recorded and the final
\* panel printed exactly once.
C4_CompletesAfterCount ==
    /\ []((~infinite /\ count >= 1) =>
            (sent_packets <= count /\ Len(finalPanel) <= 1))
    /\ ((~infinite /\ count >= 1) ~>
            (/\ pc = "Completed"
             /\ sent_packets = count
             /\ Len(hist) = count
             /\ Len(finalPanel) = 1))

C4_Witness ==
    /\ pc = "Completed"
    /\ ~infinite
    /\ count = MaxCount
    /\ sent_packets = count

\* C5: with --infinite the loop is never left by the count test, whatever count and
\* sent_packets are: the statements after the loop are never reached and the run
\* is never Completed.
C5_InfiniteNeverCompletes == infinite => pc \notin {"final", "Completed"}

\* an --infinite run far past count, ended by an interruption
C5_Witness ==
    /\ infinite
    /\ count >= 1
    /\ sent_packets > count + 1
    /\ pc = "Interrupted"

\* C6 (as claimed): every iteration appends exactly one line; a probe that returned
\* nothing or a failed response counts as sent only and its line is the time out one.
C6_OneLinePerIteration ==
    [][Record =>
         /\ Len(pings') = Len(pings) + 1
         /\ ~Succeeded(response) =>
              /\ received_packets' = received_packets
              /\ pings'[Len(pings')].text = "Request timed out"]_vars

\* C7 (as claimed): the log never holds more than 20 lines in any reachable state.
C7_NeverOverCap == Len(pings) <= LogCap

\* C7 (amended): the log holds at most 20 lines at every render and everywhere
\* outside the span between the append and the eviction, where it holds at most 21.
C7_CapOutsideAppend ==
    /\ Len(pings) <= LogCap + 1
    /\ pc \in (RunningPcs \ {"evict"}) \cup {"final", "Completed"} => Len(pings) <= LogCap
    /\ screen # <<>> => Len(screen[1].log) <= LogCap

\* a full log after an eviction
C7_Witness ==
    /\ pc = "stats"
    /\ Len(LinesOf(hist)) > LogCap
    /\ Len(pings) = LogCap

\* C8: at every render the log painted is the last min(n, 20) of the n lines
\* appended so far, oldest first.
C8_LogIsLastLines ==
    pc = "check" => screen[1].log = LastN(LinesOf(hist), LogCap)

\* the render after the 21st append: the 1st line is gone, the 21st is last
C8_Witness ==
    /\ pc = "check"
    /\ Len(LinesOf(hist)) = LogCap + 1
    /\ LinesOf(hist)[1] \notin SetOf(screen[1].log)
    /\ screen[1].log[LogCap] = LinesOf(hist)[LogCap + 1]
    /\ hist[1] # hist[2]

\* C9: the aggregates are the fold of the history: sent_packets the number of
\* iterations, received_packets the number of successes, rtt_sum the sum of their
\* elapsed times, rtt_min their minimum (inf if none), rtt_max their maximum (0 if
\* none).
C9_AggregatesAreFold ==
    LET e == Elapsed(hist) IN
    /\ pc \in RecordedPcs => sent_packets = Len(hist)
    /\ sent_packets \in {Len(hist), Len(hist) + 1}
    /\ received_packets = Len(e)
    /\ rtt_sum = SumOf(e)
    /\ IF e = <<>>
         THEN rtt_min = Inf /\ rtt_max = 0
         ELSE /\ ~rtt_min.inf /\ rtt_min.den = 1
              /\ rtt_min.num \in SetOf(e)
              /\ \A x \in SetOf(e) : rtt_min.num <= x /\ x <= rtt_max
              /\ rtt_max \in SetOf(e)

\* success 10, time out, success 30, time out
C9_Witness ==
    /\ pc = "stats"
    /\ Len(hist) = 4
    /\ Elapsed(hist) = <<10, 30>>
    /\ Succeeded(hist[1]) /\ ~Succeeded(hist[2]) /\ Succeeded(hist[3])
    /\ sent_packets = 4 /\ received_packets = 2
    /\ rtt_min = Num(10) /\ rtt_max = 30

\* C10: at every render loss is (sent - received) / sent * 100 and the average is
\* rtt_sum / received, shown to the hundredth (0 when nothing was received); no
\* division by zero is reached; with no success loss is 100, the average 0 and the
\* minimum still inf.
C10_DerivedStats ==
    /\ error # "ZeroDivisionError"
    /\ pc = "check" =>
         LET p    == screen[1].stats
             loss == p.Loss.value
             avg  == p.RTTAvg.value
             off  == avg.num * received_packets - rtt_sum * avg.den
         IN  /\ loss_percentage = <<loss>>
             /\ ~loss.inf /\ loss.den > 0
             /\ loss.num * sent_packets = (sent_packets - received_packets) * 100 * loss.den
             /\ ~avg.inf /\ avg.den > 0
             /\ IF received_packets = 0
                  THEN avg = Num(0) /\ loss = Num(100) /\ p.RTTMin.value = Inf
                  ELSE /\ 100 % avg.den = 0
                       /\ 200 * (IF off < 0 THEN 0 - off ELSE off)
                            <= avg.den * received_packets

\* a render after two probes and no success
C10_Witness ==
    /\ pc = "check"
    /\ sent_packets >= 2
    /\ received_packets = 0
    /\ screen[1].stats.Loss.value = Num(100)

C12_Tiers ==
    fmt_text # <<>> =>
        LET v    == fmt_value
            low  == IF fmt_row = "Loss" THEN 10 ELSE 50
            high == IF fmt_row = "Loss" THEN 20 ELSE 100
            c    == fmt_text[1].color
        IN  /\ fmt_text[1].value = v
            /\ c \in {"green", "yellow", "red"}
            /\ c = "green"  <=> (~v.inf /\ v.num < low * v.den)
            /\ c = "yellow" <=> (~v.inf /\ low * v.den <= v.num /\ v.num < high * v.den)
            /\ c = "red"    <=> (v.inf \/ v.num >= high * v.den)

\* an RTT of exactly 50 is yellow
C12_Witness ==
    /\ fmt_row = "line"
    /\ fmt_value = Num(50)
    /\ fmt_text # <<>>
    /\ fmt_text[1].color = "yellow"

\* what a prober exception leaves behind, whatever the counters are: the run has
\* Failed, nothing was painted or printed, nothing was recorded
AbortedByProber ==
    /\ pc = "Failed"
    /\ screen = <<>> /\ finalPanel = <<>> /\ renders = 0
    /\ pings = <<>> /\ stats = <<>>
    /\ received_packets = 0 /\ rtt_sum = 0 /\ rtt_min = Inf /\ rtt_max = 0

\* C13 (as claimed): a prober exception on the first invocation ends the run with
\* nothing rendered and sent_packets and received_packets both 0.
C13_AbortWithZeroSent ==
    (error = "ProberError" /\ hist = <<>>) =>
        (AbortedByProber /\ sent_packets = 0)

\* C13 (amended): a prober exception ends the run there (no later step, so no
\* retry); on the first invocation nothing has been rendered or recorded and
\* received_packets is 0, while sent_packets is 1: the probe was counted before
\* it was sent.
C13_AbortWithOneSent ==
    /\ [](error = "ProberError" => pc = "Failed")
    /\ []((error = "ProberError" /\ hist = <<>>) =>
            (AbortedByProber /\ sent_packets = 1))
    /\ [][error # "ProberError"]_vars

C13_Witness ==
    /\ error = "ProberError"
    /\ pc = "Failed"
    /\ hist = <<>>
    /\ sent_packets = 1

\* C14 (as claimed): in an uninterrupted run each iteration probes, records and
\* then renders once: the renders number sent_packets after each iteration (one
\* less while an iteration is under way), and what a render paints already holds
\* the probe just completed, in the statistics and as the last line of the log.
C14_OneRenderPerProbe ==
    /\ pc \in {"probe", "record", "evict", "stats", "render"} =>
         renders = sent_packets - 1
    /\ pc \in {"check", "sleep", "loop", "final", "Completed"} =>
         renders = sent_packets
    /\ pc = "check" =>
         /\ renders = Len(hist)
         /\ screen[1].stats.Sent = sent_packets
         /\ screen[1].stats.Received = received_packets
         /\ screen[1].log # <<>>
         /\ screen[1].log[Len(screen[1].log)].time = sent_packets

\* C15: recording a probe that failed or returned nothing leaves received_packets,
\* rtt_sum, rtt_min and rtt_max as they were, changes nothing but the log, with
\* the probe counted once in sent_packets, and stays in the loop; when more probes
\* are due the next one is then sent, and no step between changes the aggregates.
C15_FailureOnlyCounts ==
    /\ [][(pc = "record" /\ ~Succeeded(response)) =>
            /\ UNCHANGED <<aggregates, sent_packets, stats, loss_percentage, output>>
            /\ sent_packets = Len(hist) + 1
            /\ Len(pings') \in {Len(pings), Len(pings) + 1}
            /\ pc' = "evict"]_vars
    /\ [][pc # "record" => UNCHANGED aggregates]_vars
    /\ (pc = "record" /\ ~Succeeded(response) /\ sent_packets < count) ~> pc = "probe"

\* a success, then a failure, and the third probe under way
C15_Witness ==
    /\ pc = "probe"
    /\ Len(hist) = 2
    /\ Succeeded(hist[1]) /\ ~Succeeded(hist[2])
    /\ sent_packets = 3
    /\ received_packets = 1
    /\ rtt_sum = hist[1][1].time_elapsed_ms

\* C16: the aggregates are never rolled back: sent_packets grows by exactly 1 when
\* an iteration starts and changes at no other step; received_packets, rtt_sum and
\* rtt_max never decrease and rtt_min never increases.
C16_Monotone ==
    [][/\ (pc = "loop" /\ pc' = "probe") => sent_packets' = sent_packets + 1
       /\ ~(pc = "loop" /\ pc' = "probe") => sent_packets' = sent_packets
       /\ received_packets' >= received_packets
       /\ rtt_sum' >= rtt_sum
       /\ rtt_max' >= rtt_max
       /\ ~Lt(rtt_min, rtt_min')]_vars

\* a second success that lowered rtt_min below rtt_max
C16_Witness ==
    /\ pc = "evict"
    /\ received_packets = 2
    /\ Succeeded(hist[1]) /\ Succeeded(hist[2])
    /\ hist[2][1].time_elapsed_ms < hist[1][1].time_elapsed_ms
    /\ rtt_min = Num(hist[2][1].time_elapsed_ms)
    /\ rtt_max = hist[1][1].time_elapsed_ms

\* C17 (as claimed): every iteration applies the pacing delay after its render,
\* the one after which sent_packets >= count included.
C17_AlwaysSleeps ==
    [][(pc = "check" /\ pc' \in {"sleep", "final"}) => pc' = "sleep"]_vars

\* C17 (amended): the delay is applied after the render of every iteration except
\* the one after which sent_packets >= count holds in a count-bounded run, which
\* breaks out of the loop instead; the delay is entered from nowhere else and is
\* followed by the next test of the while condition.
C17_SleepsUnlessLast ==
    [][/\ (pc = "check" /\ pc' \in {"sleep", "final"}) =>
            /\ renders = sent_packets
            /\ pc' = "sleep" <=> (infinite \/ sent_packets < count)
       /\ pc' = "sleep" => pc = "check"
       /\ (pc = "sleep" /\ pc' \in RunningPcs) => pc' = "loop"]_vars

\* the last of two iterations left the loop from its break, without the delay
C17_Witness ==
    /\ pc = "final"
    /\ ~infinite
    /\ count = 2
    /\ sent_packets = 2
    /\ renders = 2

\* C18 (as claimed): a count-bounded run, left alone, ends Completed with one final
\* panel for every count; with count <= 0 the panel shows 0 sent, 0 received, a
\* loss of 0 and an average of 0.
C18_EveryCountCompletes ==
    pc \notin (RunningPcs \cup {"final"}) =>
        /\ pc = "Completed"
        /\ Len(finalPanel) = 1
        /\ count <= 0 =>
             /\ finalPanel[1].Sent = 0
             /\ finalPanel[1].Received = 0
             /\ finalPanel[1].Loss.value = Num(0)
             /\ finalPanel[1].RTTAvg.value = Num(0)

\* the panel of the first k recorded probes of a history
PanelOf(h, k) ==
    LET e  == Elapsed(SubSeq(h, 1, k))
        lo == IF e = <<>> THEN Inf
              ELSE Num(CHOOSE x \in SetOf(e) : \A y \in SetOf(e) : x <= y)
        hi == IF e = <<>> THEN 0
              ELSE CHOOSE x \in SetOf(e) : \A y \in SetOf(e) : y <= x
    IN  construct_stats_panel(k, Len(e), lo, hi,
                              IF e = <<>> THEN Num(0) ELSE TrueDiv(SumOf(e), Len(e)),
                              TrueDiv((k - Len(e)) * 100, k))

\* C19 (as claimed): whenever a render has happened, the final panel printed is
\* the panel of the most recent in-loop render.
C19_FinalIsLastRender ==
    (finalPanel # <<>> /\ screen # <<>>) =>
        finalPanel[Len(finalPanel)] = screen[1].stats

\* C19 (amended): the final panel is the panel most recently built (line 159): the
\* one of the most recent render, or, when the interruption falls between that
\* line and the render, the one about to be painted, one probe further. It is
\* always the panel of a whole number of recorded iterations, and on completion
\* it is the panel of the last render.
C19_FinalIsLastBuilt ==
    finalPanel # <<>> =>
        LET p == finalPanel[Len(finalPanel)] IN
        /\ Len(finalPanel) = 1
        /\ stats = <<p>>
        /\ p.Sent \in 1..Len(hist)
        /\ p = PanelOf(hist, p.Sent)
        /\ IF screen = <<>> THEN p.Sent = 1
           ELSE \/ p = screen[1].stats
                \/ pc = "Interrupted" /\ p.Sent = screen[1].stats.Sent + 1
        /\ pc = "Completed" => (screen # <<>> /\ p = screen[1].stats)

\* interrupted between building the second panel and painting it
C19_Witness ==
    /\ pc = "Interrupted"
    /\ screen # <<>>
    /\ finalPanel # <<>>
    /\ screen[1].stats.Sent = 1
    /\ finalPanel[1].Sent = 2
    /\ finalPanel[1] # screen[1].stats

====
